---------------------------- MODULE Spec2Model ----------------------------
(***************************************************************************)
(* A model of the cobald daemon runtime:                                   *)
(*   - the execution runner (BaseRunner / AsyncioRunner): submission       *)
(*     queue, lock, running flag, the event loop's scheduling loop and     *)
(*     its tasks, run() and stop();                                        *)
(*   - the section plugin orchestrator (load_configuration);               *)
(*   - the configuration tree translator (Translator.translate_hierarchy); *)
(*   - the import of the trio runner (TrioRunner).                         *)
(* The runner is checked under Spec (and LiveSpec, with fairness), the     *)
(* orchestrator under ConfigSpec, the translator under TranslateSpec.      *)
(***************************************************************************)
EXTENDS Integers, Sequences, FiniteSets, TLC

(***************************************************************************)
(* Bounds of the model.                                                    *)
(***************************************************************************)
\* payloads submitted to the runner
NPayloads == 2
\* calls of run() on the one runner instance
MaxRuns == 2
\* calls of stop() on the one runner instance
MaxStops == 1
\* distinct non-empty values a payload may return (0 stands for None)
MaxValue == 1
\* plugins handed to load_configuration
NPlugins == 2
\* nodes (mappings, sequences, scalars) of a document handed to the translator
MaxNodes == 4

Payloads == 1..NPayloads
RunCalls == 1..MaxRuns
StopCalls == 1..MaxStops
Values == 0..MaxValue

VARIABLES
    \* ---- runner: program state
    payloads,    \* BaseRunner._payloads: the pending-submission queue
    lock,        \* BaseRunner._lock: "free" or the thread holding it
    running,     \* BaseRunner.running (threading.Event)
    tasks,       \* AsyncioRunner._tasks
    loopOwner,   \* the run() call whose run_until_complete drives event_loop (0: none)
    \* ---- runner: per payload
    sub,         \* position of the submitting call: "new", "appending", "accepted"
    mode,        \* the method it was submitted with: "register" or "run"
    wrap,        \* what was put in the queue for it
    tstate,      \* its task: "none", "pending", "done", "failed", "cancelled"
    texc,        \* task.exception() of a failed task
    cancelReq,   \* task.cancel() was called and not yet delivered
    pout,        \* what the payload itself did: returned a value or raised
    nstarted,    \* how many tasks were created for it
    \* ---- runner: per run() call
    rpc,         \* position of the call
    rres,        \* how the call ended
    exc,         \* the exception await_all caught (or let through)
    didx,        \* position of the drain's iteration over _payloads
    visited,     \* tasks the first loop of _cancel_running has been through
    \* ---- runner: per stop() call
    spc,         \* position of the call
    sres,        \* how the call ended
    atStop,      \* the run() call whose loop was active when it was made (0: none)
    \* ---- load_configuration
    plugins,     \* the plugins argument
    config_data, \* the keys of the config_data argument
    cfgpc,       \* position of the call
    pidx,        \* position of the iteration over plugins
    digested,    \* the plugins whose digest was invoked, in order
    content,     \* the mapping being built: the plugins that have an entry
    cfgerr,      \* the error load_configuration raised
    \* ---- Translator.translate_hierarchy
    structure,   \* the structure argument: the document
    root_where,  \* the where argument of the outermost call
    trpc,        \* position of the call
    trres        \* how the call ended, and the factory calls it made

runnerVars == <<payloads, lock, running, tasks, loopOwner, sub, mode, wrap, tstate,
                texc, cancelReq, pout, nstarted, rpc, rres, exc, didx, visited,
                spc, sres, atStop>>
configVars == <<plugins, config_data, cfgpc, pidx, digested, content, cfgerr>>
translatorVars == <<structure, root_where, trpc, trres>>
vars == <<runnerVars, configVars, translatorVars>>

(***************************************************************************)
(* Exceptions and results.                                                 *)
(***************************************************************************)
Exc(t, w, v) == [type |-> t, who |-> w, value |-> v]
NoExc == Exc("none", 0, 0)
Ok == Exc("ok", 0, 0)
\* an exception raised by the payload itself
PayloadError(p) == Exc("PayloadError", p, 0)
OrphanedReturn(who, value) == Exc("OrphanedReturn", who, value)
CancelledError == Exc("CancelledError", 0, 0)
\* run_until_complete: "This event loop is already running"
RuntimeError == Exc("RuntimeError", 0, 0)
AttributeError == Exc("AttributeError", 0, 0)

NoOutcome == [kind |-> "unset", value |-> 0]
\* what a payload may do when it finishes: return None (0), return a value, raise
Outcomes == {[kind |-> "return", value |-> v] : v \in Values}
              \cup {[kind |-> "raise", value |-> 0]}

Finished(p) == tstate[p] \in {"done", "failed", "cancelled"}

Range(s) == {s[i] : i \in 1..Len(s)}


(***************************************************************************)
(* Construction: BaseRunner.__init__ and AsyncioRunner.__init__.           *)
(***************************************************************************)
\* the attributes the two constructors give the instance
runner_attributes == {"_logger", "_payloads", "_lock", "running", "event_loop", "_tasks"}

RunnerInit ==
    /\ payloads = <<>>
    /\ lock = "free"
    /\ running = FALSE
    /\ tasks = {}
    /\ loopOwner = 0
    /\ sub = [p \in Payloads |-> "new"]
    /\ mode = [p \in Payloads |-> "none"]
    /\ wrap = [p \in Payloads |-> "none"]
    /\ tstate = [p \in Payloads |-> "none"]
    /\ texc = [p \in Payloads |-> NoExc]
    /\ cancelReq = [p \in Payloads |-> FALSE]
    /\ pout = [p \in Payloads |-> NoOutcome]
    /\ nstarted = [p \in Payloads |-> 0]
    /\ rpc = [c \in RunCalls |-> "idle"]
    /\ rres = [c \in RunCalls |-> NoExc]
    /\ exc = [c \in RunCalls |-> NoExc]
    /\ didx = 0
    /\ visited = {}
    /\ spc = [k \in StopCalls |-> "idle"]
    /\ sres = [k \in StopCalls |-> NoExc]
    /\ atStop = [k \in StopCalls |-> 0]

(***************************************************************************)
(* Submission.  Payloads are numbered in the order their submitting calls  *)
(* begin; the calls themselves overlap freely.                             *)
(***************************************************************************)
\* register_payload handing the payload itself to BaseRunner.register_payload
register_wrapper_unwrapped == "raw"

\* AsyncioRunner.register_payload queues partial(raise_return, payload)
register_wrapper == "raise_return"

\* run_payload submitting its payload the way register_payload does
run_wrapper_orphaned == "raise_return"

\* AsyncioRunner.run_payload queues AsyncExecution(payload).coroutine
run_wrapper == "AsyncExecution"

MaySubmit(p) == sub[p] = "new" /\ (IF p = 1 THEN TRUE ELSE sub[p - 1] # "new")

register_payload(p) ==
    /\ MaySubmit(p)
    /\ sub' = [sub EXCEPT ![p] = "appending"]
    /\ mode' = [mode EXCEPT ![p] = "register"]
    /\ wrap' = [wrap EXCEPT ![p] = register_wrapper]
    /\ UNCHANGED <<payloads, lock, running, tasks, loopOwner, tstate, texc, cancelReq,
                   pout, nstarted, rpc, rres, exc, didx, visited, spc, sres, atStop>>

run_payload(p) ==
    /\ MaySubmit(p)
    /\ sub' = [sub EXCEPT ![p] = "appending"]
    /\ mode' = [mode EXCEPT ![p] = "run"]
    /\ wrap' = [wrap EXCEPT ![p] = run_wrapper]
    /\ UNCHANGED <<payloads, lock, running, tasks, loopOwner, tstate, texc, cancelReq,
                   pout, nstarted, rpc, rres, exc, didx, visited, spc, sres, atStop>>

\* BaseRunner.register_payload: self._payloads.append(payload), with no lock taken
base_register_payload(p) ==
    /\ sub[p] = "appending"
    /\ payloads' = Append(payloads, p)
    /\ sub' = [sub EXCEPT ![p] = "accepted"]
    /\ UNCHANGED <<lock, running, tasks, loopOwner, mode, wrap, tstate, texc, cancelReq,
                   pout, nstarted, rpc, rres, exc, didx, visited, spc, sres, atStop>>

(***************************************************************************)
(* BaseRunner.run and AsyncioRunner._run.                                  *)
(***************************************************************************)
\* threading.Event.set() returns None
event_set_result == "None"

\* the asserted expression of run(): not self.running.set()
rerun_guard == event_set_result = "None"

\* run() up to the end of its with block
run(c) ==
    /\ rpc[c] = "idle"
    /\ IF c = 1 THEN TRUE ELSE rpc[c - 1] # "idle"
    /\ lock = "free"
    /\ running' = TRUE
    /\ IF rerun_guard
          THEN rpc' = [rpc EXCEPT ![c] = "entered"] /\ rres' = rres
          ELSE /\ rpc' = [rpc EXCEPT ![c] = "raised"]
               /\ rres' = [rres EXCEPT ![c] = Exc("AssertionError", 0, 0)]
    /\ UNCHANGED <<payloads, lock, tasks, loopOwner, sub, mode, wrap, tstate, texc,
                   cancelReq, pout, nstarted, exc, didx, visited, spc, sres, atStop>>

\* how run() ends: its finally clause clears the flag
RunEnds(c, result) ==
    /\ rpc' = [rpc EXCEPT ![c] = IF result = Ok THEN "returned" ELSE "raised"]
    /\ rres' = [rres EXCEPT ![c] = result]
    /\ running' = FALSE

\* _run: run_until_complete(self.await_all()) refuses a loop that is running
_run(c) ==
    /\ rpc[c] = "entered"
    /\ IF loopOwner # 0
          THEN RunEnds(c, RuntimeError) /\ UNCHANGED <<loopOwner, exc>>
          ELSE /\ loopOwner' = c
               /\ rpc' = [rpc EXCEPT ![c] = "check"]
               /\ exc' = [exc EXCEPT ![c] = NoExc]
               /\ UNCHANGED <<rres, running>>
    /\ UNCHANGED <<payloads, lock, tasks, sub, mode, wrap, tstate, texc, cancelReq,
                   pout, nstarted, didx, visited, spc, sres, atStop>>


(***************************************************************************)
(* AsyncioRunner.await_all: the scheduling loop of run() call c.           *)
(***************************************************************************)
\* the coroutine await_all is suspended in a sleep, so the event loop runs tasks
Suspended(c) ==
    \/ rpc[c] \in {"yield", "sleep", "cancel_wait"}
    \/ rpc[c] = "cancel" /\ visited # {}

\* while self.running.is_set(): ... ; leaving the loop ends run() normally
await_all_check(c) ==
    /\ rpc[c] = "check"
    /\ IF running
          THEN /\ rpc' = [rpc EXCEPT ![c] = "drain_lock"]
               /\ UNCHANGED <<rres, running, loopOwner>>
          ELSE /\ RunEnds(c, Ok)
               /\ loopOwner' = 0
    /\ UNCHANGED <<payloads, lock, tasks, sub, mode, wrap, tstate, texc, cancelReq,
                   pout, nstarted, exc, didx, visited, spc, sres, atStop>>

\* _start_outstanding: with self._lock
_start_outstanding_lock(c) ==
    /\ rpc[c] = "drain_lock"
    /\ lock = "free"
    /\ lock' = "loop"
    /\ didx' = 1
    /\ rpc' = [rpc EXCEPT ![c] = "drain"]
    /\ UNCHANGED <<payloads, running, tasks, loopOwner, sub, mode, wrap, tstate, texc,
                   cancelReq, pout, nstarted, rres, exc, visited, spc, sres, atStop>>

\* _start_outstanding: one round of "for coroutine in self._payloads", which
\* creates and tracks a task, or finds the list exhausted
_start_outstanding_iter(c) ==
    /\ rpc[c] = "drain"
    /\ IF didx <= Len(payloads)
          THEN /\ tstate' = [tstate EXCEPT ![payloads[didx]] = "pending"]
               /\ nstarted' = [nstarted EXCEPT ![payloads[didx]] = @ + 1]
               /\ tasks' = tasks \cup {payloads[didx]}
               /\ didx' = didx + 1
               /\ rpc' = rpc
          ELSE /\ rpc' = [rpc EXCEPT ![c] = "drain_clear"]
               /\ UNCHANGED <<tstate, nstarted, tasks, didx>>
    /\ UNCHANGED <<payloads, lock, running, loopOwner, sub, mode, wrap, texc, cancelReq,
                   pout, rres, exc, visited, spc, sres, atStop>>

\* _start_outstanding: self._payloads.clear(), the lock released, then sleep(0)
_start_outstanding_clear(c) ==
    /\ rpc[c] = "drain_clear"
    /\ payloads' = <<>>
    /\ lock' = "free"
    /\ didx' = 0
    /\ rpc' = [rpc EXCEPT ![c] = "yield"]
    /\ UNCHANGED <<running, tasks, loopOwner, sub, mode, wrap, tstate, texc, cancelReq,
                   pout, nstarted, rres, exc, visited, spc, sres, atStop>>

\* task.exception() of a done task: it raises CancelledError for a cancelled one
task_exception(t) == IF tstate[t] = "cancelled" THEN CancelledError ELSE texc[t]

\* the done tasks whose task.exception() call makes _manage_running raise
Raising == {t \in tasks : tstate[t] \in {"failed", "cancelled"}}

\* await_all's "except Exception" takes every exception of a task; it takes
\* CancelledError only where that is an Exception (before Python 3.8)
Catches(e) == IF e = CancelledError THEN BOOLEAN ELSE {TRUE}

\* _manage_running, run when _start_outstanding's sleep(0) is over: done tasks
\* are removed in the set's order up to the first that failed or was cancelled;
\* without one, sleep(0) and sleep(1) follow
_manage_running(c) ==
    /\ rpc[c] = "yield"
    /\ \/ /\ Raising = {}
          /\ tasks' = {t \in tasks : ~Finished(t)}
          /\ rpc' = [rpc EXCEPT ![c] = "sleep"]
          /\ UNCHANGED <<exc, rres, running, loopOwner, visited>>
       \/ \E r \in Raising, S \in SUBSET {t \in tasks : tstate[t] = "done"} :
             /\ tasks' = tasks \ (S \cup {r})
             /\ exc' = [exc EXCEPT ![c] = task_exception(r)]
             /\ \E caught \in Catches(task_exception(r)) :
                   IF caught
                      THEN /\ rpc' = [rpc EXCEPT ![c] = "cancel"]
                           /\ visited' = {}
                           /\ UNCHANGED <<rres, running, loopOwner>>
                      ELSE /\ RunEnds(c, task_exception(r))
                           /\ loopOwner' = 0
                           /\ UNCHANGED visited
    /\ UNCHANGED <<payloads, lock, sub, mode, wrap, tstate, texc, cancelReq, pout,
                   nstarted, didx, spc, sres, atStop>>

\* asyncio.sleep(1) is over
await_all_wake(c) ==
    /\ rpc[c] = "sleep"
    /\ rpc' = [rpc EXCEPT ![c] = "check"]
    /\ UNCHANGED <<payloads, lock, running, tasks, loopOwner, sub, mode, wrap, tstate,
                   texc, cancelReq, pout, nstarted, rres, exc, didx, visited, spc, sres,
                   atStop>>

\* a cancelling loop that calls task.cancel() on no task
Cancel_skipped(S) == cancelReq

\* task.cancel() on every task of S: a request, which a finished task ignores
Cancel(S) == [p \in Payloads |-> IF p \in S /\ tstate[p] = "pending" THEN TRUE ELSE cancelReq[p]]

\* _cancel_running, first loop: task.cancel() and sleep(0) for each tracked task
_cancel_running_cancel(c) ==
    /\ rpc[c] = "cancel"
    /\ IF visited # tasks
          THEN /\ \E t \in tasks \ visited :
                     /\ cancelReq' = Cancel({t})
                     /\ visited' = visited \cup {t}
               /\ rpc' = rpc
          ELSE /\ rpc' = [rpc EXCEPT ![c] = "cancel_wait"]
               /\ UNCHANGED <<cancelReq, visited>>
    /\ UNCHANGED <<payloads, lock, running, tasks, loopOwner, sub, mode, wrap, tstate,
                   texc, pout, nstarted, rres, exc, didx, spc, sres, atStop>>

\* a second loop that waits for no task
_cancel_running_wait_unawaited(c) ==
    /\ rpc[c] = "cancel_wait"
    /\ RunEnds(c, exc[c])
    /\ loopOwner' = 0
    /\ UNCHANGED <<payloads, lock, tasks, sub, mode, wrap, tstate, texc, cancelReq,
                   pout, nstarted, exc, didx, visited, spc, sres, atStop>>

\* _cancel_running, second loop, left once every tracked task is done; then
\* await_all re-raises and run() ends with the exception
_cancel_running_wait(c) ==
    /\ rpc[c] = "cancel_wait"
    /\ \A t \in tasks : Finished(t)
    /\ RunEnds(c, exc[c])
    /\ loopOwner' = 0
    /\ UNCHANGED <<payloads, lock, tasks, sub, mode, wrap, tstate, texc, cancelReq,
                   pout, nstarted, exc, didx, visited, spc, sres, atStop>>

(***************************************************************************)
(* A task of the event loop runs its payload to the end, or is cancelled.  *)
(***************************************************************************)
\* how the task of a payload wrapped by w ends when the payload ends with o
TaskEnd(w, p, o) ==
    CASE w = "raise_return" /\ o.kind = "return" /\ o.value # 0 ->
             [st |-> "failed", exc |-> OrphanedReturn(p, o.value)]
      [] w # "AsyncExecution" /\ o.kind = "raise" ->
             [st |-> "failed", exc |-> PayloadError(p)]
      [] OTHER -> [st |-> "done", exc |-> NoExc]

task_step(p, o) ==
    /\ loopOwner # 0
    /\ Suspended(loopOwner)
    /\ tstate[p] = "pending"
    /\ IF cancelReq[p]
          THEN /\ tstate' = [tstate EXCEPT ![p] = "cancelled"]
               /\ cancelReq' = [cancelReq EXCEPT ![p] = FALSE]
               /\ UNCHANGED <<texc, pout>>
          ELSE /\ pout' = [pout EXCEPT ![p] = o]
               /\ tstate' = [tstate EXCEPT ![p] = TaskEnd(wrap[p], p, o).st]
               /\ texc' = [texc EXCEPT ![p] = TaskEnd(wrap[p], p, o).exc]
               /\ UNCHANGED cancelReq
    /\ UNCHANGED <<payloads, lock, running, tasks, loopOwner, sub, mode, wrap, nstarted,
                   rpc, rres, exc, didx, visited, spc, sres, atStop>>

\* what the caller blocked in run_payload(p) has received from execution.wait()
Received(p) ==
    IF wrap[p] = "AsyncExecution" /\ tstate[p] = "done" THEN pout[p] ELSE NoOutcome

(***************************************************************************)
(* AsyncioRunner.stop.                                                     *)
(***************************************************************************)
\* with self._lock: self.running.clear(); task.cancel() for every tracked task
stop(k) ==
    /\ spc[k] = "idle"
    /\ IF k = 1 THEN TRUE ELSE spc[k - 1] = "done"
    /\ lock = "free"
    /\ running' = FALSE
    /\ cancelReq' = Cancel(tasks)
    /\ atStop' = [atStop EXCEPT ![k] = loopOwner]
    /\ spc' = [spc EXCEPT ![k] = "wait"]
    /\ UNCHANGED <<payloads, lock, tasks, loopOwner, sub, mode, wrap, tstate, texc,
                   pout, nstarted, rpc, rres, exc, didx, visited, sres>>

\* self._stopped.wait(): the instance has no attribute _stopped, the call
\* raises; with one, stop() would wait here for the loop to have ended
stop_wait(k) ==
    /\ spc[k] = "wait"
    /\ IF "_stopped" \in runner_attributes
          THEN /\ loopOwner = 0
               /\ sres' = [sres EXCEPT ![k] = Ok]
          ELSE sres' = [sres EXCEPT ![k] = AttributeError]
    /\ spc' = [spc EXCEPT ![k] = "done"]
    /\ UNCHANGED <<payloads, lock, running, tasks, loopOwner, sub, mode, wrap, tstate,
                   texc, cancelReq, pout, nstarted, rpc, rres, exc, didx, visited,
                   atStop>>

(***************************************************************************)
(* The runner's specification.                                             *)
(***************************************************************************)
ConfigurationError(where, what, names) ==
    [type |-> "ConfigurationError", where |-> where, what |-> what, names |-> names]
NoConfigurationError == [type |-> "none", where |-> "", what |-> "", names |-> {}]

ConfigIdle ==
    /\ plugins = <<>>
    /\ config_data = {}
    /\ cfgpc = "idle"
    /\ pidx = 0
    /\ digested = <<>>
    /\ content = {}
    /\ cfgerr = NoConfigurationError

\* a node of a document: a scalar, a sequence (kind "list") or a mapping
\* (kind "dict", type being the value of its "__type__" entry, "none" when it
\* has none); items are its values in document order
Node(kind, type, items) == [kind |-> kind, type |-> type, items |-> items]
Scalar == Node("scalar", "none", <<>>)
NoValue == Node("unset", "none", <<>>)

\* how a call of translate_hierarchy or construct ended: the value returned or
\* the exception raised, and the factory calls made on the way, in order
Return(value, calls) == [value |-> value, err |-> NoConfigurationError, calls |-> calls]
Raise(err, calls) == [value |-> NoValue, err |-> err, calls |-> calls]

TranslatorIdle ==
    /\ structure = Scalar
    /\ root_where = ""
    /\ trpc = "idle"
    /\ trres = Return(NoValue, <<>>)

Init == RunnerInit /\ ConfigIdle /\ TranslatorIdle

Submit ==
    \E p \in Payloads :
       \/ register_payload(p) /\ UNCHANGED <<configVars, translatorVars>>
       \/ run_payload(p) /\ UNCHANGED <<configVars, translatorVars>>
       \/ base_register_payload(p) /\ UNCHANGED <<configVars, translatorVars>>

Run ==
    \E c \in RunCalls :
       \/ run(c) /\ UNCHANGED <<configVars, translatorVars>>
       \/ _run(c) /\ UNCHANGED <<configVars, translatorVars>>

Tick ==
    \E c \in RunCalls :
       \/ await_all_check(c) /\ UNCHANGED <<configVars, translatorVars>>
       \/ _start_outstanding_lock(c) /\ UNCHANGED <<configVars, translatorVars>>
       \/ _start_outstanding_iter(c) /\ UNCHANGED <<configVars, translatorVars>>
       \/ _start_outstanding_clear(c) /\ UNCHANGED <<configVars, translatorVars>>
       \/ _manage_running(c) /\ UNCHANGED <<configVars, translatorVars>>
       \/ await_all_wake(c) /\ UNCHANGED <<configVars, translatorVars>>

Fatal ==
    \E c \in RunCalls :
       \/ _cancel_running_cancel(c) /\ UNCHANGED <<configVars, translatorVars>>
       \/ _cancel_running_wait(c) /\ UNCHANGED <<configVars, translatorVars>>

Task == \E p \in Payloads, o \in Outcomes : task_step(p, o) /\ UNCHANGED <<configVars, translatorVars>>

Stop ==
    \E k \in StopCalls :
       \/ stop(k) /\ UNCHANGED <<configVars, translatorVars>>
       \/ stop_wait(k) /\ UNCHANGED <<configVars, translatorVars>>

Next == Submit \/ Run \/ Tick \/ Fatal \/ Task \/ Stop

Spec == Init /\ [][Next]_vars

\* The thread blocked in run() is scheduled, and so is the coroutine await_all
\* on its event loop: the scheduling loop takes its next step whenever it can.
LiveSpec == Spec /\ WF_vars(Tick) /\ WF_vars(Fatal)


(***************************************************************************)
(* load_configuration(config_data, plugins).                               *)
(*                                                                         *)
(* Section names are numbers.  The plugins have distinct sections, and     *)
(* are numbered by them: plugin i is the i-th declared and its section is  *)
(* i.  LoggingKey is the "logging" entry, UnclaimedKeys are two keys that   *)
(* are no plugin's section.                                                *)
(***************************************************************************)
LoggingKey == 0
UnclaimedKey == NPlugins + 1
UnclaimedKeys == {UnclaimedKey, UnclaimedKey + 1}
Sections == 1..NPlugins

\* SectionPlugin.__init__: the fields of a plugin; before and after hold
\* section names (digest is the plugin's code: see DigestOutcomes)
SectionPlugin ==
    [section : Sections, required : BOOLEAN, before : SUBSET Sections,
     after : SUBSET Sections]

\* the (before, after) pairs a plugin is declared with: at most one name in all
Constraints ==
    {<<{}, {}>>} \cup {<<{n}, {}>> : n \in Sections} \cup {<<{}, {n}>> : n \in Sections}

PluginTuples ==
    {ps \in [1..NPlugins -> SectionPlugin] :
        \A i \in 1..NPlugins :
           /\ ps[i].section = i
           /\ <<ps[i].before, ps[i].after>> \in Constraints}

ConfigInit ==
    /\ plugins \in PluginTuples
    /\ config_data \in SUBSET (Sections \cup {LoggingKey} \cup UnclaimedKeys)
    /\ cfgpc = "logging"
    /\ pidx = 0
    /\ digested = <<>>
    /\ content = {}
    /\ cfgerr = NoConfigurationError

\* what a plugin's digest may do with its section
DigestOutcomes == {"None", "value", "raise"}

\* config_data.pop("logging") and, when it was there, configure_logging
load_configuration_logging ==
    /\ cfgpc = "logging"
    /\ config_data' = config_data \ {LoggingKey}
    /\ cfgpc' = "unmatched"
    /\ UNCHANGED <<plugins, pidx, digested, content, cfgerr>>

\* unmatched = config_data.keys() - {plugin.section for plugin in plugins}
unmatched == config_data \ {plugins[i].section : i \in 1..Len(plugins)}

\* load_configuration without the check of lines 195-198
load_configuration_unmatched_accepted ==
    /\ cfgpc = "unmatched"
    /\ cfgpc' = "plugins"
    /\ pidx' = 1
    /\ UNCHANGED <<plugins, config_data, digested, content, cfgerr>>

load_configuration_unmatched ==
    /\ cfgpc = "unmatched"
    /\ IF unmatched # {}
          THEN /\ cfgerr' = ConfigurationError("root", "unknown config sections", unmatched)
               /\ cfgpc' = "raised"
               /\ pidx' = pidx
          ELSE /\ cfgpc' = "plugins"
               /\ pidx' = 1
               /\ cfgerr' = cfgerr
    /\ UNCHANGED <<plugins, config_data, digested, content>>

\* the order in which load_configuration goes through the plugins: the tuple's
PluginOrder == [i \in 1..Len(plugins) |-> i]

\* a round that takes every plugin for optional
load_configuration_plugin_optional(d) ==
    /\ cfgpc = "plugins"
    /\ pidx <= Len(plugins)
    /\ pidx' = pidx + 1
    /\ IF plugins[PluginOrder[pidx]].section \in config_data
          THEN /\ digested' = Append(digested, PluginOrder[pidx])
               /\ content' = IF d = "value" THEN content \cup {PluginOrder[pidx]} ELSE content
          ELSE UNCHANGED <<digested, content>>
    /\ UNCHANGED <<plugins, config_data, cfgerr, cfgpc>>

\* one round of "for plugin in plugins", the digest ending with d
load_configuration_plugin(d) ==
    /\ cfgpc = "plugins"
    /\ pidx <= Len(plugins)
    /\ IF plugins[PluginOrder[pidx]].section \in config_data
          THEN /\ digested' = Append(digested, PluginOrder[pidx])
               /\ content' = IF d = "value" THEN content \cup {PluginOrder[pidx]} ELSE content
               /\ IF d = "raise"
                     THEN /\ cfgerr' = [NoConfigurationError EXCEPT !.type = "DigestError"]
                          /\ cfgpc' = "raised"
                          /\ pidx' = pidx
                     ELSE /\ pidx' = pidx + 1
                          /\ UNCHANGED <<cfgerr, cfgpc>>
          ELSE /\ IF plugins[PluginOrder[pidx]].required
                     THEN /\ cfgerr' = ConfigurationError("root", "missing section",
                                                          {plugins[PluginOrder[pidx]].section})
                          /\ cfgpc' = "raised"
                          /\ pidx' = pidx
                     ELSE /\ pidx' = pidx + 1
                          /\ UNCHANGED <<cfgerr, cfgpc>>
               /\ UNCHANGED <<digested, content>>
    /\ UNCHANGED <<plugins, config_data>>

\* return content
load_configuration_return ==
    /\ cfgpc = "plugins"
    /\ pidx > Len(plugins)
    /\ cfgpc' = "returned"
    /\ UNCHANGED <<plugins, config_data, pidx, digested, content, cfgerr>>

ConfigNext ==
    \/ load_configuration_logging /\ UNCHANGED <<runnerVars, translatorVars>>
    \/ load_configuration_unmatched /\ UNCHANGED <<runnerVars, translatorVars>>
    \/ \E d \in DigestOutcomes : load_configuration_plugin(d) /\ UNCHANGED <<runnerVars, translatorVars>>
    \/ load_configuration_return /\ UNCHANGED <<runnerVars, translatorVars>>

ConfigSpecInit == RunnerInit /\ ConfigInit /\ TranslatorIdle

ConfigSpec == ConfigSpecInit /\ [][ConfigNext]_vars


(***************************************************************************)
(* Translator.translate_hierarchy(structure, where).                       *)
(*                                                                         *)
(* A mapping's i-th entry has the key KeyName(i).  The "__type__" entry of *)
(* a mapping is kept apart from its other entries (its value is a string,  *)
(* which translates to itself), and names one of three kinds of factory.   *)
(* No construct_kwargs are passed.                                         *)
(***************************************************************************)
\* "__type__" values: load_name finds the factory and the factory returns an
\* object; load_name finds no such object; the factory raises an exception
TypeMarkers == {"object", "missing", "failing"}

\* the default of ConfigurationError's where
None == "<None>"

KeyName(i) == "k" \o ToString(i)

RECURSIVE Trees(_)
RECURSIVE Forests(_)
\* the documents of exactly n nodes
Trees(n) ==
    (IF n = 1 THEN {Scalar} ELSE {})
       \cup {Node("dict", t, f) : t \in {"none"} \cup TypeMarkers, f \in Forests(n - 1)}
       \cup {Node("list", "none", f) : f \in Forests(n - 1)}
\* the sequences of documents of n nodes in all
Forests(n) ==
    IF n = 0
       THEN {<<>>}
       ELSE UNION {{<<t>> \o f : t \in Trees(k), f \in Forests(n - k)} : k \in 1..n}

Documents == UNION {Trees(n) : n \in 1..MaxNodes}

TranslatorInit ==
    /\ structure \in Documents
    /\ root_where \in {"", "root"}
    /\ trpc = "called"
    /\ trres = Return(NoValue, <<>>)

\* "%s.%s" % (where, key) and "%s[%s]" % (where, index)
child_where(node, where, i) ==
    IF node.kind = "dict"
       THEN where \o "." \o KeyName(i)
       ELSE where \o "[" \o ToString(i - 1) \o "]"

Reversed(s) == [i \in 1..Len(s) |-> s[Len(s) + 1 - i]]

\* the order in which the values of a node are translated: structure.items()
\* for a mapping, reversed(list(enumerate(structure))) for a sequence
visit_order(node) ==
    IF node.kind = "dict"
       THEN [i \in 1..Len(node.items) |-> i]
       ELSE Reversed([i \in 1..Len(node.items) |-> i])

\* Translator.load_name: the exception it raises for the name
load_name(name) ==
    IF name = "missing"
       THEN ConfigurationError(None, "no such object", {})
       ELSE NoConfigurationError

\* Translator.construct: factory(*args, **mapping)
construct(mapping) ==
    IF load_name(mapping.type) # NoConfigurationError
       THEN Raise(load_name(mapping.type), <<>>)
       ELSE IF mapping.type = "failing"
               THEN Raise(Exc("Exception", 0, 0), <<mapping>>)
               ELSE Return(Node("object", mapping.type, mapping.items), <<mapping>>)

\* handlers that put the frame's own where on every error
except_clauses_overwriting(err, where) ==
    ConfigurationError(where, IF err.type = "ConfigurationError" THEN err.what ELSE err.type, {})

\* the except clauses of translate_hierarchy: the exception that leaves the
\* frame whose path is where when err was raised inside it
except_clauses(err, where) ==
    IF err.type = "ConfigurationError"
       THEN IF err.where = None
               THEN ConfigurationError(where, err.what, {})
               ELSE err
       ELSE ConfigurationError(where, err.type, {})

\* a mapping left as the document has it
rebound_raw(node, values) == node

\* structure = {key: translate_hierarchy(value, ...) ...}: the mapping that
\* structure names from then on
rebound(node, values) == [node EXCEPT !.items = values]

RECURSIVE translate_hierarchy(_, _)
RECURSIVE translate_values(_, _, _)
\* the comprehension over the values of node, as far as its first k rounds:
\* the values translated (in visit order), or the exception that ended it
translate_values(node, where, k) ==
    IF k = 0
       THEN Return(<<>>, <<>>)
       ELSE LET before == translate_values(node, where, k - 1)
                i == visit_order(node)[k]
                this == translate_hierarchy(node.items[i], child_where(node, where, i))
            IN  IF before.err # NoConfigurationError
                   THEN before
                   ELSE IF this.err # NoConfigurationError
                           THEN Raise(this.err, before.calls \o this.calls)
                           ELSE Return(Append(before.value, this.value),
                                       before.calls \o this.calls)

translate_hierarchy(node, where) ==
    IF node.kind = "scalar"
       THEN Return(node, <<>>)
       ELSE LET values == translate_values(node, where, Len(node.items))
            IN  IF values.err # NoConfigurationError
                   THEN Raise(except_clauses(values.err, where), values.calls)
                   ELSE IF node.kind = "list"
                           THEN Return(rebound(node, Reversed(values.value)), values.calls)
                           ELSE IF node.type = "none"
                                   THEN Return(rebound(node, values.value), values.calls)
                                   ELSE LET made == construct(rebound(node, values.value))
                                            calls == values.calls \o
                                                [n \in 1..Len(made.calls) |->
                                                    [where |-> where, mapping |-> made.calls[n]]]
                                        IN  IF made.err # NoConfigurationError
                                               THEN Raise(except_clauses(made.err, where), calls)
                                               ELSE Return(made.value, calls)

\* the outermost call of translate_hierarchy, on the document
translate ==
    /\ trpc = "called"
    /\ trres' = translate_hierarchy(structure, root_where)
    /\ trpc' = IF trres'.err = NoConfigurationError THEN "returned" ELSE "raised"
    /\ UNCHANGED <<structure, root_where>>

TranslateNext == translate /\ UNCHANGED <<runnerVars, configVars>>

TranslateSpecInit == RunnerInit /\ ConfigIdle /\ TranslatorInit

TranslateSpec == TranslateSpecInit /\ [][TranslateNext]_vars


(***************************************************************************)
(* TrioRunner, handed the events the AsyncioRunner of Spec is handed.      *)
(***************************************************************************)
\* the names base_runner.py defines
base_runner_names == {"BaseRunner", "OrphanedReturn"}

ImportError == Exc("ImportError", 0, 0)

\* importing trio_runner.py: from .base_runner import CoroutineRunner
trio_runner_import == IF "CoroutineRunner" \in base_runner_names THEN Ok ELSE ImportError

\* TrioRunner.run up to the loop of await_all: "with trio.open_nursery()" is
\* not "async with", which trio refuses with a RuntimeError
TrioRunner_run == IF trio_runner_import # Ok THEN trio_runner_import ELSE RuntimeError

\* TrioRunner._start_outstanding: the payloads handed to nursery.start_soon,
\* which are those drained from the queue once run() is in its loop
trio_started == IF TrioRunner_run = Ok THEN {p \in Payloads : nstarted[p] > 0} ELSE {}


(***************************************************************************)
(* Properties of the runner.                                               *)
(***************************************************************************)
\* the positions of run() inside await_all
LoopPcs == {"check", "drain_lock", "drain", "drain_clear", "yield", "sleep",
            "cancel", "cancel_wait"}

Exited(c) == rpc[c] \in {"returned", "raised"}

\* run() call c leaves its scheduling loop, and so ends, in this step
Exits(c) == rpc[c] \in LoopPcs /\ rpc'[c] \in {"returned", "raised"}

TaskFailure(e) == e.type \in {"PayloadError", "OrphanedReturn"}

NoStopCalled == \A k \in StopCalls : spc[k] = "idle"

\* C1 as claimed: a fire-and-forget task that finished with an exception, and
\* is still tracked when run() ends, makes run() end by raising that very
\* exception, with every other tracked task cancelled or finished.
C1_FailedTaskEndsRun ==
    [][\A c \in RunCalls : \A p \in tasks :
          (Exits(c) /\ mode[p] = "register" /\ tstate[p] = "failed")
             => /\ rres'[c] = texc[p]
                /\ \A t \in tasks : Finished(t)]_vars

\* C1, amended: once a tick has reaped a failed task (await_all caught its
\* exception), the loop never ticks again, the exception is that of the
\* reaped task, every tracked task has been cancelled or has finished when
\* the cancelling loop is over, and run() ends only by raising that exception.
C1_ReapedFailureIsFatal ==
    \A c \in RunCalls :
       TaskFailure(exc[c]) =>
          /\ rpc[c] \in {"cancel", "cancel_wait", "raised"}
          /\ tstate[exc[c].who] = "failed"
          /\ texc[exc[c].who] = exc[c]
          /\ exc[c].who \notin tasks
          /\ rpc[c] = "cancel_wait" => \A t \in tasks : cancelReq[t] \/ Finished(t)
          /\ rpc[c] = "raised" => rres[c] = exc[c]

\* a payload raised, run() ended with its exception, the sibling was cancelled
C1_Witness ==
    \E c \in RunCalls : \E p, q \in Payloads :
       /\ p # q
       /\ NoStopCalled
       /\ rpc[c] = "raised"
       /\ rres[c] = PayloadError(p)
       /\ tstate[q] = "cancelled"

\* C2: when the run() call that stop() was called on ends, and no tracked
\* task has failed, it ends with a normal return and every tracked task is
\* finished.
C2_StopDrainsTasks ==
    [][\A c \in RunCalls :
          (/\ Exits(c)
           /\ \E k \in StopCalls : spc[k] # "idle" /\ atStop[k] = c
           /\ \A t \in tasks : tstate[t] # "failed")
             => /\ rres'[c] = Ok
                /\ \A t \in tasks : Finished(t)]_vars

\* C3: a stop() call made while run() call c was in its loop has ended only
\* if it returned, c has left its loop and every tracked task is finished.
C3_StopReturnsDrained ==
    \A k \in StopCalls :
       (spc[k] = "done" /\ atStop[k] # 0)
          => /\ sres[k] = Ok
             /\ Exited(atStop[k])
             /\ \A t \in tasks : Finished(t)

\* C4: a run() call that is not the first on the instance never gets into
\* the scheduling loop, and ends with an error.
C4_NoRerun ==
    \A c \in RunCalls :
       c > 1 =>
          /\ rpc[c] \notin LoopPcs
          /\ Exited(c) => rres[c].type \in {"AssertionError", "RuntimeError"}

\* C5: a payload submitted with run_payload never takes the runner down:
\* its task never counts as failed, no run() call catches or raises an
\* exception from it, and when it fails the failure is what the caller of
\* run_payload receives.
C5_RunPayloadIsolated ==
    \A p \in Payloads :
       mode[p] = "run" =>
          /\ tstate[p] # "failed"
          /\ \A c \in RunCalls : exc[c].who # p /\ rres[c].who # p
          /\ pout[p].kind = "raise" => Received(p) = pout[p]
          /\ \A q \in Payloads \ {p} : Received(q) # NoOutcome => mode[q] = "run"

\* a run_payload payload raised, was reaped, and the loop is in its next tick
C5_Witness ==
    \E p \in Payloads : \E c \in RunCalls :
       /\ mode[p] = "run"
       /\ pout[p].kind = "raise"
       /\ Received(p).kind = "raise"
       /\ p \notin tasks
       /\ rpc[c] = "drain"
       /\ exc[c] = NoExc
       /\ \A q \in Payloads : ~cancelReq[q] /\ tstate[q] # "cancelled"

\* C6 as claimed: a register_payload payload that returned a value, and is
\* still tracked when run() ends, makes run() end with the OrphanedReturn of
\* that payload and value, every tracked task being finished.
C6_ReturnEndsRun ==
    [][\A c \in RunCalls : \A p \in tasks :
          (Exits(c) /\ mode[p] = "register" /\ pout[p].kind = "return"
                    /\ pout[p].value # 0)
             => /\ rres'[c] = OrphanedReturn(p, pout[p].value)
                /\ \A t \in tasks : Finished(t)]_vars

\* C6, amended: a register_payload payload that returned a value other than
\* None has a task failed with OrphanedReturn(who = the payload, value = what
\* it returned); a run() call that caught an OrphanedReturn caught it from such
\* a payload, is on the fatal path, has cancelled every tracked task when its
\* cancelling loop is over, and ends only by raising that OrphanedReturn.
C6_OrphanedReturnIsFatal ==
    /\ \A p \in Payloads :
          (mode[p] = "register" /\ pout[p].kind = "return" /\ pout[p].value # 0)
             => /\ tstate[p] = "failed"
                /\ texc[p] = OrphanedReturn(p, pout[p].value)
    /\ \A c \in RunCalls :
          exc[c].type = "OrphanedReturn" =>
             /\ mode[exc[c].who] = "register"
             /\ pout[exc[c].who] = [kind |-> "return", value |-> exc[c].value]
             /\ exc[c].value # 0
             /\ rpc[c] \in {"cancel", "cancel_wait", "raised"}
             /\ rpc[c] = "raised" => rres[c] = exc[c]
    /\ \A c \in RunCalls :
          (exc[c].type = "OrphanedReturn" /\ rpc[c] = "cancel_wait")
             => \A t \in tasks : cancelReq[t] \/ Finished(t)

\* a payload returned a value, run() ended with its OrphanedReturn, the
\* sibling was cancelled
C6_Witness ==
    \E c \in RunCalls : \E p, q \in Payloads : \E v \in Values \ {0} :
       /\ p # q
       /\ NoStopCalled
       /\ rpc[c] = "raised"
       /\ rres[c] = OrphanedReturn(p, v)
       /\ pout[p].value = v
       /\ tstate[q] = "cancelled"

\* C7: the queue is never appended to while the drain step holds the lock.
C7_QueueAccessLocked ==
    [][Len(payloads') > Len(payloads) => lock # "loop"]_vars


\* no stop() was called, no run() call has ended, none is on the fatal path
KeepsRunning ==
    /\ NoStopCalled
    /\ \A c \in RunCalls : ~Exited(c) /\ exc[c] = NoExc

\* C8: a payload that was accepted, run() being in its loop, is eventually
\* started as a task, unless the runner stops running.
C8_AcceptedIsStarted ==
    \A p \in Payloads :
       (sub[p] = "accepted" /\ \E c \in RunCalls : rpc[c] \in LoopPcs)
          ~> (tstate[p] # "none" \/ ~KeepsRunning)

\* C15: a run() call that is on the fatal path for a failed task (await_all
\* caught the task's exception) ends only when every task that was ever
\* started is finished, the tracked ones among them, and only by raising the
\* exception that task failed with.
C15_RaisesAfterSiblings ==
    [][\A c \in RunCalls :
          (Exits(c) /\ TaskFailure(exc[c]))
             => /\ rpc'[c] = "raised"
                /\ rres'[c] = texc[exc[c].who]
                /\ \A t \in tasks : Finished(t)
                /\ \A p \in Payloads : tstate[p] # "none" => Finished(p)]_vars

\* run() raised a payload's exception; a sibling that was tracked when the
\* failure was caught, and was left to complete, is finished
C15_Witness ==
    \E c \in RunCalls : \E p \in Payloads : \E q \in tasks :
       /\ rpc[c] = "raised"
       /\ rres[c] = PayloadError(p)
       /\ p # q
       /\ mode[q] = "register"
       /\ tstate[q] = "done"

\* C16: every accepted payload is in the queue or has been made into exactly
\* one task; no payload is made into more than one.
C16_ExactlyOneTask ==
    \A p \in Payloads :
       /\ nstarted[p] <= 1
       /\ sub[p] = "accepted" => (p \in Range(payloads) \/ nstarted[p] = 1)

\* run() was called once only, and stop() call k was made during its loop
StoppedInLoop(k) ==
    /\ spc[k] # "idle"
    /\ atStop[k] # 0
    /\ \A c \in RunCalls \ {atStop[k]} : rpc[c] = "idle"

\* C17: once a stop() call made during the loop has cleared the flag and
\* cancelled the tracked tasks, every task that is not finished has been
\* cancelled: the loop starts no payload after that.
C17_StopCancelsAll ==
    \A k \in StopCalls :
       StoppedInLoop(k) => \A p \in Payloads : tstate[p] = "pending" => cancelReq[p]

\* C18: a stop() call that has ended, whatever the runner was doing when it
\* was made, returned without an error, and left the running flag cleared
\* for as long as run() is not called again.
C18_StopReturns ==
    \A k \in StopCalls :
       spc[k] = "done" =>
          /\ sres[k] = Ok
          /\ (\A c \in RunCalls : rpc[c] # "entered" /\ rpc[c] \notin LoopPcs) => ~running

\* C19: a run() call that is rejected while another run() call is in its
\* loop changes neither the running flag nor the position of the other call.
C19_RejectedRunChangesNothing ==
    [][\A c \in RunCalls :
          (rpc[c] = "entered" /\ rpc'[c] = "raised" /\ loopOwner # 0)
             => /\ running' = running
                /\ loopOwner' = loopOwner
                /\ \A d \in RunCalls \ {c} : rpc'[d] = rpc[d]]_vars

\* C20: every payload the asyncio backend has started as a task has been
\* started by the trio backend too, handed the same events.
C20_TrioStartsTheSame ==
    \A p \in Payloads : nstarted[p] > 0 => p \in trio_started


(***************************************************************************)
(* Properties of load_configuration.                                       *)
(***************************************************************************)
\* plugin i is to be processed before plugin j: j declares after = {i's
\* section}, or i declares before = {j's section}
MustPrecede(i, j) ==
    \/ plugins[i].section \in plugins[j].after
    \/ plugins[j].section \in plugins[i].before

\* there is a chain of at most n constraints from plugin i to plugin j
RECURSIVE Chain(_, _, _)
Chain(i, j, n) ==
    IF n = 0
       THEN FALSE
       ELSE \/ MustPrecede(i, j)
            \/ \E k \in 1..Len(plugins) : MustPrecede(i, k) /\ Chain(k, j, n - 1)

Cyclic == \E i \in 1..Len(plugins) : Chain(i, i, Len(plugins))

\* the place of plugin i in the order in which the digests were invoked
Place(i) == CHOOSE n \in 1..Len(digested) : digested[n] = i

\* C9: when plugin i is to be processed before plugin j, the constraints have
\* no cycle and both sections are in the document, the digest of j is invoked
\* only after the digest of i.
C9_AfterRespected ==
    \A i, j \in 1..Len(plugins) :
       (/\ MustPrecede(i, j)
        /\ ~Cyclic
        /\ plugins[i].section \in config_data
        /\ plugins[j].section \in config_data
        /\ j \in Range(digested))
          => /\ i \in Range(digested)
             /\ Place(i) < Place(j)

\* C10: when the constraints form a cycle, no digest is invoked and
\* load_configuration does not return: it raises.
C10_CycleReported ==
    Cyclic => /\ digested = <<>>
              /\ cfgpc # "returned"

\* C11: once load_configuration is past its check for unexpected content,
\* a document with a top-level key that is no plugin's section ("logging"
\* taken out) has made it raise a ConfigurationError at "root" that names
\* exactly the unmatched keys, and no digest was invoked.
C11_UnmatchedReported ==
    (cfgpc \notin {"logging", "unmatched"} /\ unmatched # {})
       => /\ cfgpc = "raised"
          /\ cfgerr = ConfigurationError("root", "unknown config sections", unmatched)
          /\ digested = <<>>
          /\ content = {}

\* two keys were unmatched, next to a section that is some plugin's
C11_Witness ==
    /\ cfgpc = "raised"
    /\ cfgerr.what = "unknown config sections"
    /\ cfgerr.names = UnclaimedKeys
    /\ config_data \cap Sections # {}

\* the rounds of "for plugin in plugins" that are over
Rounds == IF cfgpc = "returned" THEN 1..Len(plugins) ELSE 1..(pidx - 1)

\* plugin i had its round
Passed(i) == cfgpc \in {"plugins", "returned"} /\ \E n \in Rounds : PluginOrder[n] = i

Absent(i) == plugins[i].section \notin config_data

\* the round of plugin i is the next
Current(i) == cfgpc = "plugins" /\ pidx \in 1..Len(plugins) /\ PluginOrder[pidx] = i

\* C12: a round gets past a plugin whose section is absent only if the plugin
\* is optional, and raises "missing section" at "root" only for a required
\* plugin whose section is absent; the digest of an absent plugin is never
\* invoked and the mapping has no entry for it; a plugin gets its entry only
\* in its own round, its section present, from a digest that returned a
\* value.
C12_AbsentSections ==
    /\ [](\A i \in 1..Len(plugins) :
             /\ (Passed(i) /\ Absent(i)) => ~plugins[i].required
             /\ (cfgpc = "raised" /\ cfgerr.what = "missing section"
                                  /\ cfgerr.names = {plugins[i].section})
                   => /\ plugins[i].required
                      /\ Absent(i)
                      /\ cfgerr.where = "root"
                      /\ PluginOrder[pidx] = i
             /\ Absent(i) => i \notin Range(digested) /\ i \notin content
             /\ i \in content => i \in Range(digested))
    /\ [][\A i \in 1..Len(plugins) :
             /\ (Current(i) /\ Absent(i) /\ plugins[i].required)
                   => cfgpc' = "raised" /\ cfgerr'.what = "missing section"
             /\ (i \in content' /\ i \notin content)
                   => /\ Current(i)
                      /\ ~Absent(i)
                      /\ load_configuration_plugin("value")]_vars

\* load_configuration returned: an optional plugin's section was absent,
\* another plugin has its entry
C12_Witness ==
    /\ cfgpc = "returned"
    /\ \E i, j \in 1..Len(plugins) :
          /\ Absent(i)
          /\ ~plugins[i].required
          /\ j \in content


(***************************************************************************)
(* Properties of the translator.                                           *)
(***************************************************************************)
RECURSIVE NodesAt(_, _)
\* the nodes of a document, each with its diagnostic path
NodesAt(node, where) ==
    {<<where, node>>}
       \cup UNION {NodesAt(node.items[i], child_where(node, where, i)) :
                      i \in 1..Len(node.items)}

\* constructing the node itself fails
Malformed(node) == node.kind = "dict" /\ node.type \in {"missing", "failing"}

RECURSIVE WellFormed(_)
\* no node of the document is malformed
WellFormed(node) ==
    /\ ~Malformed(node)
    /\ \A i \in 1..Len(node.items) : WellFormed(node.items[i])

\* C13: translate_hierarchy raises exactly when some node is malformed; what
\* it raises is a ConfigurationError whose where is the path of a malformed
\* node with nothing malformed below it: the frame in which the failure
\* happened, not a frame that encloses it.
C13_DeepestWhere ==
    /\ trpc = "returned" => WellFormed(structure)
    /\ trpc = "raised" =>
          /\ trres.err.type = "ConfigurationError"
          /\ \E at \in NodesAt(structure, root_where) :
                /\ trres.err.where = at[1]
                /\ Malformed(at[2])
                /\ \A i \in 1..Len(at[2].items) : WellFormed(at[2].items[i])

\* the mapping at root.k1[0] is malformed, in a sequence, in a mapping: the
\* error went through two enclosing frames
C13_Witness ==
    /\ trpc = "raised"
    /\ structure.kind = "dict"
    /\ trres.err.where = "root.k1[0]"
    /\ trres.err.what = "no such object"

RECURSIVE HasMarker(_)
\* a type-marker mapping is left in the value
HasMarker(value) ==
    \/ value.kind = "dict" /\ value.type # "none"
    \/ \E i \in 1..Len(value.items) : HasMarker(value.items[i])

\* C14: every call of a factory was made for a type-marker mapping of the
\* document, with the translations of all its values, none of which has a
\* type-marker mapping left in it, and after every factory call that the
\* translation of these values makes.
C14_ValuesBeforeFactory ==
    \A j \in 1..Len(trres.calls) :
       \E at \in NodesAt(structure, root_where) :
          /\ trres.calls[j].where = at[1]
          /\ at[2].kind = "dict"
          /\ trres.calls[j].mapping.type = at[2].type
          /\ at[2].type # "none"
          /\ Len(trres.calls[j].mapping.items) = Len(at[2].items)
          /\ \A i \in 1..Len(at[2].items) :
                LET value == translate_hierarchy(at[2].items[i], child_where(at[2], at[1], i))
                IN  /\ value.err = NoConfigurationError
                    /\ trres.calls[j].mapping.items[i] = value.value
                    /\ ~HasMarker(value.value)
                    /\ \A n \in 1..Len(value.calls) :
                          \E e \in 1..(j - 1) : trres.calls[e] = value.calls[n]

\* a type-marker mapping in a sequence in a type-marker mapping: the outer
\* factory was called after the inner one, with the object it made
C14_Witness ==
    /\ trpc = "returned"
    /\ Len(trres.calls) = 2
    /\ trres.calls[1].where = "root.k1[0]"
    /\ trres.calls[2].where = "root"
    /\ trres.calls[2].mapping.items[1].kind = "list"
    /\ trres.calls[2].mapping.items[1].items[1].kind = "object"

====
